---------------------------- MODULE Spec2Model ----------------------------
(***************************************************************************)
(* The Contour helper class of the MAST plasma equilibrium notebook        *)
(* (src/unnamed/part_000, lines 363-448): its fields, the two cached       *)
(* properties axes and shape, plot, legend, __call__, the frame generator  *)
(* _next_image and to_gif, together with the parts of pyplot, numpy and    *)
(* PIL the class drives (the current figure, reshape, contour's argument   *)
(* checks, the GIF writer).                                                *)
(*                                                                         *)
(* Optional values are sequences of length 0 (None) or 1.                  *)
(***************************************************************************)
EXTENDS Integers, Sequences, FiniteSets, TLC

\* Longest efit / prediction array (rows) handed to to_gif.
MaxLen == 2
\* Most contour artists a surface carries before a further stand-alone
\* plot or comparison is no longer taken.
MaxArtists == 2
\* The most time samples of the dataset the preparation cell is run on.
MaxSamples == 3
\* The longest array pair of the session that drives a generator by hand.
GenLen == 3

\* levels: int = 31
DefaultLevels == 31
\* np.linspace(efit.min(), efit.max(), 51)
LinspaceNum == 51
\* duration=100
Duration == 100
\* loop=0
Loop == 0

Insts == {1, 2}

None == << >>
Some(x) == << x >>

\* A flux field is known by its value range, (z.min(), z.max()): a field
\* that varies and a constant one.
Field(lo, hi) == [lo |-> lo, hi |-> hi]
Fields == { Field(0, 1), Field(1, 1) }
\* The field of the stand-alone plot and comparison calls.
PlotFields == { Field(0, 1) }
\* The predicted field of a stand-alone comparison.
PredFields == { Field(0, 2) }

\* The coordinates a DataArray carries: the lengths of z and of
\* major_radius, which are sizes["z"] and sizes["major_radius"].
Grids == { [nz |-> 2, nr |-> 3], [nz |-> 3, nr |-> 2], [nz |-> 2, nr |-> 2] }
NoGrid == [nz |-> 0, nr |-> 0]
\* The number of elements of a field on grid g.
Cells(g) == g.nz * g.nr
\* Element counts of the flat arrays.
Sizes == {4, 6}

\* data: xr.DataArray | np.ndarray
DataArray(g, f) == [kind |-> "DataArray", grid |-> g, size |-> g.nz * g.nr, f |-> f]
NdArray(n, f) == [kind |-> "ndarray", grid |-> NoGrid, size |-> n, f |-> f]
PlotData == { DataArray(g, f) : g \in Grids, f \in PlotFields }
              \cup { NdArray(n, f) : n \in Sizes, f \in PlotFields }

\* Contour level sets: the level count an int stands for, the levels the
\* locator picks for n levels over a field's range, and a linspace.
IntLevels(n) == [kind |-> "int", n |-> n, lo |-> 0, hi |-> 0]
AutoLevels(n, f) == [kind |-> "auto", n |-> n, lo |-> f.lo, hi |-> f.hi]
Linspace(lo, hi, n) == [kind |-> "linspace", n |-> n, lo |-> lo, hi |-> hi]

\* np.min(np.diff(levels)) > 0 for a level array of more than one entry.
Increasing(lv) == lv.kind = "auto" \/ lv.n <= 1 \/ lv.lo < lv.hi

\* **kwargs of plot: colors and levels, each given or not.
Unset == "unset"
Kwargs == [colors : {Unset}, levels : {None}]
\* label=None is the empty label: "if label:" takes neither.
Labels == {""}

\* An (n, size) array of n flattened fields, as y_test and y_pred are.
Array2D(size, rows) == [size |-> size, rows |-> rows]
Row(arr, i) == NdArray(arr.size, arr.rows[i])
SeqsUpTo(S, n) == UNION { [1..k -> S] : k \in 0..n }
\* The ground truth: every array of up to MaxLen fields.  The prediction:
\* arrays whose rows all differ, row i being known by its range (0, i).
EfitArrays == { Array2D(n, r) : n \in Sizes, r \in SeqsUpTo(Fields, MaxLen) }
PredArrays ==
    { Array2D(n, [i \in 1..k |-> Field(0, i)]) : n \in Sizes, k \in 0..MaxLen }
EmptyArray == Array2D(0, << >>)

(***************************************************************************)
(* The state of one Contour instance and of pyplot.                        *)
(*   mf       magnetic_flux: None or the grid of the bound DataArray       *)
(*   levels   the levels field                                             *)
(*   handles  _handles, the pending legend handles                         *)
(*   axes     whether the cached property axes holds a value               *)
(*   fig      self.fig: None until axes was first computed, then the       *)
(*            figure of the latest axes: its contour artists in drawing    *)
(*            order and its legend                                         *)
(*   shape    the cached property shape: None or (nz, nr)                  *)
(* pyplot: cur names the current figure (none yet, a figure that           *)
(* plt.legend opened by itself, or the figure of an instance), anon the    *)
(* legend of the figure plt.legend opened.  A figure no instance refers    *)
(* to and pyplot no longer has current is not read again and is dropped.   *)
(* gens holds the generator objects _next_image has returned: the         *)
(* arguments each was created with, where it stands (created and not yet   *)
(* started, suspended at a yield, done, or abandoned by its consumer), the *)
(* number of frames it has yielded and the contours its loop holds.        *)
(* prep is the data preparation cell: the dataset train as the cell has    *)
(* it, and X, y, index and the four parts once they are assigned.          *)
(***************************************************************************)
VARIABLES anim, cur, anon, live, last, gens, prep
vars == << anim, cur, anon, live, last, gens, prep >>

\* The data preparation cell before it runs, and in the sessions that
\* follow it.
NoPrep ==
    [stage |-> "none", train |-> << >>, chans |-> {}, X |-> << >>, y |-> << >>,
     index |-> << >>, X_train |-> << >>, X_test |-> << >>,
     y_train |-> << >>, y_test |-> << >>]

GenIds == {1, 2}
\* The generator of the sessions that start one sequence only.
OneGen == {1}

NoCur == [kind |-> "none", a |-> 0]
AnonCur == [kind |-> "anon", a |-> 0]
InstCur(a) == [kind |-> "inst", a |-> a]

\* Contour(magnetic_flux): the dataclass' fields after construction.
NewContour(mf) ==
    [mf |-> mf, levels |-> IntLevels(DefaultLevels), handles |-> << >>,
     axes |-> FALSE, fig |-> None, shape |-> None]

\* plt.subplots(): a new figure, which pyplot makes the current one.
NewFigure == [arts |-> << >>, legend |-> None]

\* The ids of the artists on the live figures and of the contours a
\* suspended generator still refers to.
UsedIds(w) ==
    w.held \cup
    UNION { { w.anim[a].fig[1].arts[i].id : i \in 1..Len(w.anim[a].fig[1].arts) }
            : a \in { b \in Insts : w.anim[b].fig # None } }
FreshId(w) == CHOOSE n \in 1..(Cardinality(UsedIds(w)) + 1) : n \notin UsedIds(w)

\* The cached property axes: computed on first use, then kept.
Axes(w, a) ==
    IF w.anim[a].axes THEN w
    ELSE [w EXCEPT !.anim[a].axes = TRUE,
                   !.anim[a].fig = Some(NewFigure),
                   !.cur = InstCur(a),
                   !.anon = None]

\* shape as a plain property: computed from magnetic_flux on every use.
ShapeUncached(w, a) ==
    [w EXCEPT !.anim[a].shape = << w.anim[a].mf[1].nz, w.anim[a].mf[1].nr >>]

\* The cached property shape: computed from magnetic_flux on first use.
Shape(w, a) ==
    IF w.anim[a].shape # None THEN w
    ELSE [w EXCEPT !.anim[a].shape =
                     << w.anim[a].mf[1].nz, w.anim[a].mf[1].nr >>]

\* The value of x handed to F: x is computed once, however often F reads it.
Bind(x, F(_)) == CHOOSE v \in { F(y) : y \in {x} } : TRUE

Raise(w, e) == [w |-> w, err |-> e, ret |-> None]
NoErr == "none"

\* contour() choosing its levels anew from each field it draws.
ContourLevelsPerField(levels, data) == AutoLevels(levels.n, data.f)

\* What contour() stores as its levels.
ContourLevels(levels, data) ==
    IF levels.kind = "int" THEN AutoLevels(levels.n, data.f) ELSE levels

\* The body of plot without line 402: the levels field keeps its value.
PlotDrawLevelsNotStored(w, a, data, label, colors, levels) ==
    LET s == w.anim[a]
        clv == ContourLevels(levels, data)
    IN  IF data.size # s.shape[1] * s.shape[2] THEN Raise(w, "ValueError")
        ELSE IF s.mf[1].nr # s.shape[2] \/ s.mf[1].nz # s.shape[1]
             THEN Raise(w, "TypeError")
        ELSE IF ~Increasing(clv) THEN Raise(w, "ValueError")
        ELSE Bind(FreshId(w), LAMBDA id :
               [w |-> [w EXCEPT
                         !.anim[a].fig[1].arts =
                             Append(@, [id |-> id, f |-> data.f,
                                        colors |-> colors, lv |-> clv]),
                         !.anim[a].handles =
                             IF label # ""
                             THEN Append(@, [label |-> label, color |-> colors])
                             ELSE @],
                err |-> NoErr,
                ret |-> Some(id)])

\* The body of plot once axes, the coordinates and shape are there:
\* reshape, the contour call, and the lines after it.
PlotDraw(w, a, data, label, colors, levels) ==
    LET s == w.anim[a]
        clv == ContourLevels(levels, data)
    IN  IF data.size # s.shape[1] * s.shape[2] THEN Raise(w, "ValueError")
        ELSE IF s.mf[1].nr # s.shape[2] \/ s.mf[1].nz # s.shape[1]
             THEN Raise(w, "TypeError")
        ELSE IF ~Increasing(clv) THEN Raise(w, "ValueError")
        ELSE Bind(FreshId(w), LAMBDA id :
               [w |-> [w EXCEPT
                         !.anim[a].fig[1].arts =
                             Append(@, [id |-> id, f |-> data.f,
                                        colors |-> colors, lv |-> clv]),
                         !.anim[a].levels = clv,
                         !.anim[a].handles =
                             IF label # ""
                             THEN Append(@, [label |-> label, color |-> colors])
                             ELSE @],
                err |-> NoErr,
                ret |-> Some(id)])

\* plot(data, label, **kwargs)
Plot(w, a, data, label, kw) ==
    LET mf == IF data.kind = "DataArray" THEN Some(data.grid) ELSE w.anim[a].mf
        colors == IF kw.colors = Unset THEN "gray" ELSE kw.colors
        levels == IF kw.levels = None THEN w.anim[a].levels ELSE kw.levels[1]
    IN  Bind(Axes([w EXCEPT !.anim[a].mf = mf], a), LAMBDA w1 :
          IF mf = None THEN Raise(w1, "AttributeError")
          ELSE Bind(Shape(w1, a), LAMBDA w2 :
                 PlotDraw(w2, a, data, label, colors, levels)))

\* A legend() that keeps the handles it has shown.
LegendKeepsHandles(w, a) ==
    LET h == w.anim[a].handles
    IN  CASE w.cur.kind = "inst" ->
                 [w EXCEPT !.anim[w.cur.a].fig[1].legend = Some(h)]
            [] OTHER -> [w EXCEPT !.cur = AnonCur, !.anon = Some(h)]

\* legend(): plt.legend(handles=self._handles, ...) draws on pyplot's
\* current axes, opening a figure when there is none; then _handles = [].
Legend(w, a) ==
    LET h == w.anim[a].handles
        w1 == CASE w.cur.kind = "inst" ->
                     [w EXCEPT !.anim[w.cur.a].fig[1].legend = Some(h)]
                [] OTHER -> [w EXCEPT !.cur = AnonCur, !.anon = Some(h)]
    IN  [w1 EXCEPT !.anim[a].handles = << >>]

\* __call__ with the two plot calls in the other order.
CompareSwapped(w, a, efit, prediction) ==
    Bind(Plot(w, a, prediction, "Prediction", [colors |-> "C0", levels |-> None]),
         LAMBDA r1 :
      IF r1.err # NoErr THEN r1
      ELSE Bind(Plot(r1.w, a, efit, "EFIT++",
                     [colors |-> "gray", levels |-> None]),
                LAMBDA r2 :
             IF r2.err # NoErr THEN r2
             ELSE [w |-> r2.w, err |-> NoErr, ret |-> r1.ret \o r2.ret]))

\* __call__(efit, prediction): the list of the two plot results.
Compare(w, a, efit, prediction) ==
    Bind(Plot(w, a, efit, "EFIT++", [colors |-> "gray", levels |-> None]),
         LAMBDA r1 :
      IF r1.err # NoErr THEN r1
      ELSE Bind(Plot(r1.w, a, prediction, "Prediction",
                     [colors |-> "C0", levels |-> None]),
                LAMBDA r2 :
             IF r2.err # NoErr THEN r2
             ELSE [w |-> r2.w, err |-> NoErr, ret |-> r1.ret \o r2.ret]))

\* contour.remove(): the artist leaves the figure it was drawn on.
RemoveArtist(w, id) ==
    [w EXCEPT !.anim = [a \in Insts |->
        IF w.anim[a].fig = None THEN w.anim[a]
        ELSE [w.anim[a] EXCEPT !.fig[1].arts = SelectSeq(@, LAMBDA x : x.id # id)]]]

\* The loop of lines 432-433 left out: no contour is removed.
RemoveNone(w, ids) == w

RECURSIVE RemoveAll(_, _)
RemoveAll(w, ids) ==
    IF ids = << >> THEN w ELSE RemoveAll(RemoveArtist(w, Head(ids)), Tail(ids))

\* efit.min(), efit.max() over the whole array.
ArrayMin(arr) == CHOOSE m \in { arr.rows[i].lo : i \in 1..Len(arr.rows) } :
                    \A i \in 1..Len(arr.rows) : m <= arr.rows[i].lo
ArrayMax(arr) == CHOOSE m \in { arr.rows[i].hi : i \in 1..Len(arr.rows) } :
                    \A i \in 1..Len(arr.rows) : m >= arr.rows[i].hi

\* The pixels of self.fig after canvas.draw(): what is drawn on it.
Picture(fig) ==
    [arts |-> [i \in 1..Len(fig.arts) |->
                  [f |-> fig.arts[i].f, colors |-> fig.arts[i].colors,
                   lv |-> fig.arts[i].lv]],
     legend |-> fig.legend]

Min2(x, y) == IF x <= y THEN x ELSE y

\* A step the generator or to_gif has completed, with the index of the
\* pair it worked on (0 where there is none).
Ev(ev, i) == [ev |-> ev, i |-> i]

\* A generator result: the world, the exception or none, the line group
\* it was raised in, the contours the generator holds, the images
\* yielded so far, the levels field at each yield, and the steps
\* completed so far in the order they ran.
GenResult(w, err, stage, contours, frames, stored, log) ==
    [w |-> w, err |-> err, stage |-> stage, contours |-> contours,
     frames |-> frames, stored |-> stored, log |-> log]

\* _next_image up to the for loop (lines 426-430).
GenStart(w, a, efit, prediction) ==
    LET w1 == [w EXCEPT !.anim[a].axes = FALSE]
        w2 == [w1 EXCEPT !.anim[a].handles = << >>]
        w3 == [w2 EXCEPT !.anim[a].levels =
                  Linspace(ArrayMin(efit), ArrayMax(efit), LinspaceNum)]
    IN  IF ~w.anim[a].axes
          THEN GenResult(w, "AttributeError", "reset", << >>, << >>, << >>, << >>)
        ELSE IF Len(efit.rows) = 0
          THEN GenResult(w2, "ValueError", "levels", << >>, << >>, << >>,
                         << Ev("reset", 0) >>)
        ELSE IF Len(prediction.rows) = 0
          THEN GenResult(w3, "IndexError", "init", << >>, << >>, << >>,
                         << Ev("reset", 0), Ev("levels", 0) >>)
        ELSE Bind(Compare(w3, a, Row(efit, Len(efit.rows)),
                          Row(prediction, Len(prediction.rows))),
                  LAMBDA r :
               IF r.err # NoErr
                 THEN GenResult(r.w, r.err, "init", << >>, << >>, << >>,
                                << Ev("reset", 0), Ev("levels", 0) >>)
               ELSE GenResult(Legend(r.w, a), NoErr, "init", r.ret, << >>, << >>,
                              << Ev("reset", 0), Ev("levels", 0),
                                 Ev("draw", Len(efit.rows)), Ev("legend", 0) >>))

\* A turn of the for loop that builds the legend again after its redraw.
GenStepWithLegend(g, a, efit, prediction, i) ==
    Bind(Compare(RemoveAll(g.w, g.contours), a, Row(efit, i), Row(prediction, i)),
         LAMBDA r :
      IF r.err # NoErr
        THEN GenResult(r.w, r.err, "sweep", g.contours, g.frames, g.stored,
                       Append(g.log, Ev("remove", i)))
      ELSE Bind(Legend(r.w, a), LAMBDA w1 :
             GenResult(w1, NoErr, "sweep", r.ret,
                       Append(g.frames, Picture(w1.anim[a].fig[1])),
                       Append(g.stored, w1.anim[a].levels),
                       g.log \o << Ev("remove", i), Ev("draw", i),
                                   Ev("legend", 0), Ev("yield", i) >>)))

\* One turn of the for loop (lines 431-436): the pair of index i.
GenStep(g, a, efit, prediction, i) ==
    Bind(Compare(RemoveAll(g.w, g.contours), a, Row(efit, i), Row(prediction, i)),
         LAMBDA r :
      IF r.err # NoErr
        THEN GenResult(r.w, r.err, "sweep", g.contours, g.frames, g.stored,
                       Append(g.log, Ev("remove", i)))
      ELSE GenResult(r.w, NoErr, "sweep", r.ret,
                     Append(g.frames, Picture(r.w.anim[a].fig[1])),
                     Append(g.stored, r.w.anim[a].levels),
                     g.log \o << Ev("remove", i), Ev("draw", i), Ev("yield", i) >>))

\* The for loop over zip(efit, prediction) from index i on.
RECURSIVE Sweep(_, _, _, _, _)
Sweep(g, a, efit, prediction, i) ==
    IF g.err # NoErr \/ i > Min2(Len(efit.rows), Len(prediction.rows)) THEN g
    ELSE Bind(GenStep(g, a, efit, prediction, i), LAMBDA g1 :
           Sweep(g1, a, efit, prediction, i + 1))

\* [image for image in self._next_image(efit, prediction)]
Consume(w, a, efit, prediction) ==
    Bind(GenStart(w, a, efit, prediction), LAMBDA g :
      Sweep(g, a, efit, prediction, 1))

\* The GIF writer: a frame whose pixels equal the previous frame's is not
\* written, its duration is added to the previous frame's.
RECURSIVE GifFrames(_, _)
GifFrames(imgs, acc) ==
    IF imgs = << >> THEN acc
    ELSE IF acc # << >> /\ acc[Len(acc)].img = Head(imgs)
      THEN GifFrames(Tail(imgs),
                     [acc EXCEPT ![Len(acc)].duration = @ + Duration])
    ELSE GifFrames(Tail(imgs),
                   Append(acc, [img |-> Head(imgs), duration |-> Duration]))

\* imgs[0].save(path, save_all=True, append_images=imgs, duration, loop)
SaveGif(imgs) ==
    [frames |-> GifFrames(<< imgs[1] >> \o imgs, << >>), loop |-> Loop]

\* to_gif writing the file as soon as the first image is there.
ToGifResultWriteFirst(w, a, efit, prediction) ==
    Bind(Consume(w, a, efit, prediction), LAMBDA g :
      IF g.frames = << >>
        THEN [g |-> g, err |-> IF g.err # NoErr THEN g.err ELSE "IndexError",
              gif |-> None]
      ELSE [g |-> [g EXCEPT !.log = Append(@, Ev("save", 0))],
            err |-> g.err,
            gif |-> Some(SaveGif(<< g.frames[1] >>))])

\* to_gif(efit, prediction): the result of the generator and the file.
ToGifResult(w, a, efit, prediction) ==
    Bind(Consume(w, a, efit, prediction), LAMBDA g :
      IF g.err # NoErr THEN [g |-> g, err |-> g.err, gif |-> None]
      ELSE IF g.frames = << >>
        THEN [g |-> [g EXCEPT !.stage = "save"], err |-> "IndexError", gif |-> None]
      ELSE [g |-> [g EXCEPT !.stage = "save", !.log = Append(@, Ev("save", 0))],
            err |-> NoErr,
            gif |-> Some(SaveGif(g.frames))])

(***************************************************************************)
(* The calls a notebook cell makes.  last records the call that has just   *)
(* run: its arguments, the exception it raised (or none), what it          *)
(* returned, and the instance as it was before the call; NextCell drops    *)
(* the record when the next cell is about to run.                          *)
(***************************************************************************)
World ==
    [anim |-> anim, cur |-> cur, anon |-> anon,
     held |-> UNION { { gens[g].contours[k] : k \in 1..Len(gens[g].contours) }
                      : g \in GenIds }]

\* No generator object in the slot.
NoGen == [st |-> "none", a |-> 0, efit |-> EmptyArray, prediction |-> EmptyArray,
          i |-> 0, contours |-> << >>, w0 |-> None]

NoData == NdArray(0, Field(0, 0))
NoKw == [colors |-> Unset, levels |-> None]
Idle ==
    [op |-> "idle", a |-> 0, data |-> NoData, data2 |-> NoData,
     label |-> "", kw |-> NoKw,
     efit |-> EmptyArray, prediction |-> EmptyArray,
     err |-> NoErr, stage |-> "", ret |-> << >>,
     frames |-> << >>, stored |-> << >>, gif |-> None, log |-> << >>,
     pre |-> NewContour(None), precur |-> NoCur, g |-> 0, pregen |-> NoGen]

Called(op, a) == [Idle EXCEPT !.op = op, !.a = a, !.pre = anim[a], !.precur = cur]

ArtistCount(a) == IF anim[a].fig = None \/ ~anim[a].axes THEN 0
                  ELSE Len(anim[a].fig[1].arts)

Into(w) ==
    /\ anim' = w.anim
    /\ cur' = w.cur
    /\ anon' = w.anon
    /\ UNCHANGED << live, prep >>

\* A call that runs no hand-driven generator leaves the generator objects
\* alone.  Call(_) is the call as a map on sessions; it is run as well on
\* the session w0 that a started generator keeps for reference, so that
\* w0 stays the session with the same calls and without the generator's
\* pulls.
Direct(w, Call(_)) ==
    /\ Into(w)
    /\ gens' = [g \in GenIds |->
                  IF gens[g].w0 = None THEN gens[g]
                  ELSE [gens[g] EXCEPT !.w0 = Some(Call(gens[g].w0[1]))]]

Init ==
    /\ \E mf \in {None} \cup { Some(g) : g \in Grids } :
          anim = [a \in Insts |-> NewContour(IF a = 1 THEN mf ELSE None)]
    /\ cur = NoCur
    /\ anon = None
    /\ live = {1}
    /\ last = Idle
    /\ gens = [g \in GenIds |-> NoGen]
    /\ prep = NoPrep

DoPlot(a, data, label, kw) ==
    /\ last.op = "idle"
    /\ ArtistCount(a) < MaxArtists
    /\ \E r \in { Plot(World, a, data, label, kw) } :
           /\ Direct(r.w, LAMBDA w : Plot(w, a, data, label, kw).w)
           /\ last' = [Called("plot", a) EXCEPT !.data = data, !.label = label,
                           !.kw = kw, !.err = r.err, !.ret = r.ret]

DoCompare(a, efit, prediction) ==
    /\ last.op = "idle"
    /\ ArtistCount(a) + 2 <= MaxArtists
    /\ \E r \in { Compare(World, a, efit, prediction) } :
           /\ Direct(r.w, LAMBDA w : Compare(w, a, efit, prediction).w)
           /\ last' = [Called("compare", a) EXCEPT !.data = efit,
                           !.data2 = prediction,
                           !.err = r.err, !.ret = r.ret]

DoLegend(a) ==
    /\ last.op = "idle"
    /\ \E w1 \in { Legend(World, a) } : Direct(w1, LAMBDA w : Legend(w, a))
    /\ last' = Called("legend", a)

ToGif(a, efit, prediction) ==
    /\ last.op = "idle"
    /\ \E r \in { ToGifResult(World, a, efit, prediction) } :
           /\ Direct(r.g.w,
                     LAMBDA w : ToGifResult(w, a, efit, prediction).g.w)
           /\ last' = [Called("to_gif", a) EXCEPT !.efit = efit,
                           !.prediction = prediction, !.err = r.err,
                           !.stage = r.g.stage, !.ret = r.g.contours,
                           !.frames = r.g.frames, !.stored = r.g.stored,
                           !.gif = r.gif, !.log = r.g.log]

\* A _next_image that is an ordinary function: the reset, the levels and
\* the first drawing run at the call.
AnimateEager(g, a, efit, prediction) ==
    /\ last.op = "idle"
    /\ gens[g].st = "none"
    /\ \E r \in { GenStart(World, a, efit, prediction) } :
         /\ Into(r.w)
         /\ gens' = [gens EXCEPT ![g] = [st |-> "created", a |-> a, efit |-> efit,
                                         prediction |-> prediction, i |-> 0,
                                         contours |-> r.contours,
                                         w0 |-> None]]
         /\ last' = [Called("animate", a) EXCEPT !.g = g, !.efit = efit,
                         !.prediction = prediction, !.log = r.log]

\* gen = contour._next_image(efit, prediction): calling a generator
\* function runs none of its body.
Animate(g, a, efit, prediction) ==
    /\ last.op = "idle"
    /\ gens[g].st = "none"
    /\ gens' = [gens EXCEPT ![g] = [st |-> "created", a |-> a, efit |-> efit,
                                    prediction |-> prediction, i |-> 0,
                                    contours |-> << >>, w0 |-> None]]
    /\ last' = [Called("animate", a) EXCEPT !.g = g, !.efit = efit,
                    !.prediction = prediction]
    /\ UNCHANGED << anim, cur, anon, live, prep >>

\* The generator as next(gen) finds it: suspended at the yield of its
\* i-th turn with the contours of that turn, no frame handed out yet by
\* this call.
Resumed(gen) ==
    GenResult(World, NoErr, "sweep", gen.contours, << >>, << >>, << >>)

\* What one next(gen) runs: from the top of the body to the first yield
\* for a generator not yet started, from the yield it is suspended at to
\* the next one otherwise; the loop ends when zip has no further pair.
PullResult(gen) ==
    Bind(IF gen.st = "created"
           THEN GenStart(World, gen.a, gen.efit, gen.prediction)
           ELSE Resumed(gen),
         LAMBDA g0 :
      IF g0.err # NoErr THEN [g |-> g0, stop |-> FALSE]
      ELSE IF gen.i + 1 > Min2(Len(gen.efit.rows), Len(gen.prediction.rows))
        THEN [g |-> g0, stop |-> TRUE]
      ELSE [g |-> GenStep(g0, gen.a, gen.efit, gen.prediction, gen.i + 1),
            stop |-> FALSE])

\* next(gen)
Pull(g) ==
    /\ last.op = "idle"
    /\ gens[g].st \in { "created", "suspended", "done" }
    /\ IF gens[g].st = "done"
         THEN /\ last' = [Called("next", gens[g].a) EXCEPT !.g = g,
                              !.pregen = gens[g], !.err = "StopIteration"]
              /\ UNCHANGED << anim, cur, anon, live, gens, prep >>
         ELSE \E r \in { PullResult(gens[g]) } :
                /\ Into(r.g.w)
                /\ gens' = [gens EXCEPT ![g] =
                      IF r.stop \/ r.g.err # NoErr
                        THEN [@ EXCEPT !.st = "done", !.contours = << >>]
                        ELSE [@ EXCEPT !.st = "suspended", !.i = @ + 1,
                                       !.contours = r.g.contours,
                                       !.w0 = IF @ = None
                                                THEN Some([World EXCEPT !.held = {}])
                                                ELSE @]]
                /\ last' = [Called("next", gens[g].a) EXCEPT !.g = g,
                                !.pregen = gens[g],
                                !.efit = gens[g].efit,
                                !.prediction = gens[g].prediction,
                                !.err = IF r.stop THEN "StopIteration" ELSE r.g.err,
                                !.stage = r.g.stage, !.ret = r.g.contours,
                                !.frames = r.g.frames, !.stored = r.g.stored,
                                !.log = r.g.log]

\* The consumer stops pulling and drops the generator for good.
Abandon(g) ==
    /\ last.op = "idle"
    /\ gens[g].st \in { "created", "suspended" }
    /\ gens' = [gens EXCEPT ![g] = [@ EXCEPT !.st = "abandoned", !.contours = << >>]]
    /\ last' = [Called("abandon", gens[g].a) EXCEPT !.g = g, !.pregen = gens[g]]
    /\ UNCHANGED << anim, cur, anon, live, prep >>

NextCell ==
    /\ last.op # "idle"
    /\ last' = Idle
    /\ UNCHANGED << anim, cur, anon, live, gens, prep >>

Next ==
    \/ \E a \in live, data \in PlotData, label \in Labels, kw \in Kwargs :
          DoPlot(a, data, label, kw)
    \/ \E a \in live, efit \in PlotData, n \in Sizes, f \in PredFields :
          DoCompare(a, efit, NdArray(n, f))
    \/ \E a \in live : DoLegend(a)
    \/ \E a \in live, efit \in EfitArrays :
          \E prediction \in { p \in PredArrays : p.size = efit.size } :
             ToGif(a, efit, prediction)
    \/ NextCell

Spec == Init /\ [][Next]_vars

(***************************************************************************)
(* A session that also drives the generator by hand: an instance made for  *)
(* the 2 x 3 grid, comparisons and animations of fields of that grid, the  *)
(* two arrays of an animation of one length as in the notebook.            *)
(***************************************************************************)
GenGrid == [nz |-> 2, nr |-> 3]
GenEfit == { Array2D(Cells(GenGrid), [i \in 1..k |-> Field(0, 1)]) : k \in 0..GenLen }
GenPred == { Array2D(Cells(GenGrid), [i \in 1..k |-> Field(0, i)]) : k \in 0..GenLen }

InitGen ==
    /\ anim = [a \in Insts |-> NewContour(IF a = 1 THEN Some(GenGrid) ELSE None)]
    /\ cur = NoCur
    /\ anon = None
    /\ live = {1}
    /\ last = Idle
    /\ gens = [g \in GenIds |-> NoGen]
    /\ prep = NoPrep

NextGen ==
    \/ \E a \in live, ef \in PlotFields, pf \in PredFields :
          DoCompare(a, NdArray(Cells(GenGrid), ef), NdArray(Cells(GenGrid), pf))
    \/ \E g \in OneGen, a \in live, efit \in GenEfit :
          \E prediction \in { p \in GenPred : Len(p.rows) = Len(efit.rows) } :
              Animate(g, a, efit, prediction)
    \/ \E g \in OneGen : Pull(g)
    \/ \E g \in OneGen : Abandon(g)
    \/ \E a \in live, efit \in GenEfit :
          \E prediction \in { p \in GenPred : Len(p.rows) = Len(efit.rows) } :
              ToGif(a, efit, prediction)
    \/ NextCell

SpecGen == InitGen /\ [][NextGen]_vars

(***************************************************************************)
(* A session with two instances, both made for the 2 x 3 grid, whose       *)
(* calls and generator pulls interleave; every animation is of the same    *)
(* two pairs of fields.                                                    *)
(***************************************************************************)
Efit2 == Array2D(Cells(GenGrid), << Field(0, 1), Field(0, 1) >>)
Pred2 == Array2D(Cells(GenGrid), << Field(0, 1), Field(0, 2) >>)

Init2 ==
    /\ anim = [a \in Insts |-> NewContour(Some(GenGrid))]
    /\ cur = NoCur
    /\ anon = None
    /\ live = Insts
    /\ last = Idle
    /\ gens = [g \in GenIds |-> NoGen]
    /\ prep = NoPrep

Next2 ==
    \/ \E a \in live, f \in PlotFields :
          DoPlot(a, NdArray(Cells(GenGrid), f), "", NoKw)
    \/ \E a \in live, ef \in PlotFields, pf \in PredFields :
          DoCompare(a, NdArray(Cells(GenGrid), ef), NdArray(Cells(GenGrid), pf))
    \/ \E a \in live : DoLegend(a)
    \/ \E g \in OneGen, a \in live : Animate(g, a, Efit2, Pred2)
    \/ \E g \in OneGen : Pull(g)
    \/ NextCell

Spec2 == Init2 /\ [][Next2]_vars

(***************************************************************************)
(* A session of one instance made for the 2 x 3 grid in which every call   *)
(* that touches the pending legend handles occurs: plots without a label,  *)
(* comparisons (two labelled plots), legend(), to_gif and the pulls of a   *)
(* generator driven by hand; to_gif is called with two pairs of fields or  *)
(* with empty arrays.                                                      *)
(***************************************************************************)
NextLegend ==
    \/ \E a \in live, f \in PlotFields :
          DoPlot(a, NdArray(Cells(GenGrid), f), "", NoKw)
    \/ \E a \in live, ef \in PlotFields, pf \in PredFields :
          DoCompare(a, NdArray(Cells(GenGrid), ef), NdArray(Cells(GenGrid), pf))
    \/ \E a \in live : DoLegend(a)
    \/ \E g \in OneGen, a \in live, efit \in GenEfit :
          \E prediction \in { p \in GenPred : Len(p.rows) = Len(efit.rows) } :
              Animate(g, a, efit, prediction)
    \/ \E g \in OneGen : Pull(g)
    \/ \E a \in live, pair \in { << Efit2, Pred2 >>,
                                   << Array2D(Cells(GenGrid), << >>),
                                      Array2D(Cells(GenGrid), << >>) >> } :
          ToGif(a, pair[1], pair[2])
    \/ NextCell

SpecLegend == InitGen /\ [][NextLegend]_vars

(***************************************************************************)
(* A session of one instance made for the 2 x 3 grid in which two frame    *)
(* sequences are started and pulled in any order, beside the comparison    *)
(* the notebook draws before it animates.                                  *)
(***************************************************************************)
NextSeqs ==
    \/ \E a \in live, ef \in PlotFields, pf \in PredFields :
          DoCompare(a, NdArray(Cells(GenGrid), ef), NdArray(Cells(GenGrid), pf))
    \/ \E g \in GenIds, a \in live, efit \in GenEfit :
          \E prediction \in { p \in GenPred : Len(p.rows) = Len(efit.rows) } :
              Animate(g, a, efit, prediction)
    \/ \E g \in GenIds : Pull(g)
    \/ NextCell

SpecSeqs == InitGen /\ [][NextSeqs]_vars

(***************************************************************************)
(* The data preparation cell (lines 223-235).  The dataset has one entry   *)
(* per time sample: its time label (labels repeat from shot to shot), its  *)
(* shot_index, flux_loop_flux over the flux loop channels and psi over     *)
(* (z, major_radius).  NaN marks a missing value.  The values of sample i  *)
(* are built from i, so that every row tells which sample it came from.    *)
(***************************************************************************)
NaN == -1
TestShot == 3
Shots == {2, 3}
Times == {0, 1}
Channels == {1, 2}

FluxOf(i, gap) == [c \in Channels |-> IF c = 2 /\ gap THEN NaN ELSE 10 * i + c]
PsiOf(i, gap) ==
    << << 100 * i + 1, 100 * i + 2 >>,
       << IF gap THEN NaN ELSE 100 * i + 3, 100 * i + 4 >> >>

SampleChoices == [t : Times, shot : Shots, fluxgap : BOOLEAN, psigap : BOOLEAN]

\* The dataset of n time samples made as c says.
Dataset(n, c) ==
    [i \in 1..n |-> [t |-> c[i].t, shot |-> c[i].shot,
                     flux |-> FluxOf(i, c[i].fluxgap),
                     psi |-> PsiOf(i, c[i].psigap)]]

\* The entries of a psi map, row after row (ndarray.reshape, C order).
Flatten(m) == [k \in 1..(Len(m) * Len(m[1])) |->
                 m[((k - 1) \div Len(m[1])) + 1][((k - 1) % Len(m[1])) + 1]]

\* The channels of the set cs in increasing order.
RECURSIVE Sorted(_)
Sorted(cs) ==
    IF cs = {} THEN << >>
    ELSE LET c == CHOOSE x \in cs : \A z \in cs : x <= z
         IN  << c >> \o Sorted(cs \ { c })

\* dataset[attr].to_pandas() for flux_loop_flux: one row per time sample,
\* labelled with its time, one column per channel.
ToFrame(train, chans) ==
    [i \in 1..Len(train) |->
        [t |-> train[i].t,
         row |-> [k \in 1..Cardinality(chans) |-> train[i].flux[Sorted(chans)[k]]]]]

\* pd.concat(frames, axis=1) of the one frame that signals selects.
Concat(frames) == frames[1]

\* to_pandas(dataset, attrs) with attrs = signals = ["flux_loop_flux"]
ToPandas(train, chans) == Concat(<< ToFrame(train, chans) >>)

\* ~index left out: the mask is used as it is.
InvertKept(mask) == mask

\* ~index
Invert(mask) == [i \in 1..Len(mask) |-> ~mask[i]]

\* rows[mask]: the rows at the positions where the boolean mask is true.
RECURSIVE MaskSelect(_, _)
MaskSelect(rows, mask) ==
    IF rows = << >> THEN << >>
    ELSE (IF Head(mask) THEN << Head(rows) >> ELSE << >>)
            \o MaskSelect(Tail(rows), Tail(mask))

InitPrep ==
    /\ anim = [a \in Insts |-> NewContour(None)]
    /\ cur = NoCur
    /\ anon = None
    /\ live = {}
    /\ last = Idle
    /\ gens = [g \in GenIds |-> NoGen]
    /\ \E n \in 0..MaxSamples : \E c \in [1..n -> SampleChoices] :
          prep = [NoPrep EXCEPT !.stage = "selected", !.train = Dataset(n, c),
                                !.chans = Channels]

Session == << anim, cur, anon, live, last, gens >>

\* train = train.dropna(dim="flux_loop_channel") (line 226): a channel
\* with a missing value at any time is dropped.
DropChannels ==
    /\ prep.stage = "selected"
    /\ LET keep == { c \in prep.chans :
                       \A i \in 1..Len(prep.train) : prep.train[i].flux[c] # NaN }
       IN  prep' = [prep EXCEPT !.stage = "channels", !.chans = keep]
    /\ UNCHANGED Session

\* A sample has a missing value in a variable that is left.
Missing(smp, chans) ==
    \/ \E c \in chans : smp.flux[c] = NaN
    \/ \E j \in 1..Len(smp.psi), k \in 1..Len(smp.psi[1]) : smp.psi[j][k] = NaN

\* train = train.dropna(dim="time") (line 229)
DropTimes ==
    /\ prep.stage = "channels"
    /\ prep' = [prep EXCEPT !.stage = "times",
                   !.train = SelectSeq(@, LAMBDA smp : ~Missing(smp, prep.chans))]
    /\ UNCHANGED Session

\* X = to_pandas(train, signals); y = train.psi.data.reshape(...)
\* (lines 230-231)
Extract ==
    /\ prep.stage = "times"
    /\ prep' = [prep EXCEPT !.stage = "extracted",
                   !.X = ToPandas(prep.train, prep.chans),
                   !.y = [i \in 1..Len(prep.train) |-> Flatten(prep.train[i].psi)]]
    /\ UNCHANGED Session

\* index = train.shot_index.values == 3 and the four parts (lines 234-235)
Split ==
    /\ prep.stage = "extracted"
    /\ LET index == [i \in 1..Len(prep.train) |-> prep.train[i].shot = TestShot]
       IN  prep' = [prep EXCEPT !.stage = "split", !.index = index,
                       !.X_train = MaskSelect(prep.X, Invert(index)),
                       !.X_test = MaskSelect(prep.X, index),
                       !.y_train = MaskSelect(prep.y, Invert(index)),
                       !.y_test = MaskSelect(prep.y, index)]
    /\ UNCHANGED Session

NextPrep == DropChannels \/ DropTimes \/ Extract \/ Split

SpecPrep == InitPrep /\ [][NextPrep]_vars

(***************************************************************************)
(* What the properties below read from the record of the call that has     *)
(* just run.                                                               *)
(***************************************************************************)
GifRan == last.op = "to_gif"
PlotRan == last.op = "plot"

\* Before the call the instance was bound: a grid, a live surface, and a
\* cached shape (if any) that is the shape of that grid.
PreBound ==
    /\ last.pre.mf # None
    /\ last.pre.axes
    /\ last.pre.shape \in { None, << last.pre.mf[1].nz, last.pre.mf[1].nr >> }

\* Both arrays of the to_gif call hold n fields of the bound grid.
PairOfLength(n) ==
    /\ Len(last.efit.rows) = n
    /\ Len(last.prediction.rows) = n
    /\ last.efit.size = Cells(last.pre.mf[1])
    /\ last.prediction.size = Cells(last.pre.mf[1])

\* The exceptions plot raises over the grid: the re-raised AttributeError,
\* reshape's ValueError and contour's TypeError.
GridErrors == { "AttributeError", "ValueError", "TypeError" }

\* The picture shows field e in gray under field p in C0, nothing else.
Shows(pic, e, p) ==
    /\ Len(pic.arts) = 2
    /\ pic.arts[1].f = e /\ pic.arts[1].colors = "gray"
    /\ pic.arts[2].f = p /\ pic.arts[2].colors = "C0"

\* lv is the 51-point linspace over the range of the whole array.
IsGlobalRange(lv, arr) ==
    /\ lv.kind = "linspace" /\ lv.n = LinspaceNum
    /\ \A i \in 1..Len(arr.rows) : lv.lo <= arr.rows[i].lo /\ lv.hi >= arr.rows[i].hi
    /\ \E i \in 1..Len(arr.rows) : lv.lo = arr.rows[i].lo
    /\ \E i \in 1..Len(arr.rows) : lv.hi = arr.rows[i].hi

\* Every value of the array is the same: its minimum is its maximum.
Degenerate(arr) ==
    \A i, j \in 1..Len(arr.rows) : arr.rows[i].lo = arr.rows[j].hi

\* C1: on a bound animator, two arrays of N >= 1 fields of the grid give
\* exactly N frames, frame i showing the pair of index i, without an
\* exception.
C1_FramePerIndex ==
    (GifRan /\ PreBound /\ \E n \in 1..MaxLen : PairOfLength(n))
    => /\ last.err = NoErr
       /\ Len(last.frames) = Len(last.efit.rows)
       /\ \A i \in 1..Len(last.frames) :
             Shows(last.frames[i], last.efit.rows[i], last.prediction.rows[i])

\* C2: on a bound animator, arrays of different lengths make the call
\* fail, and no frame is yielded before it fails.
C2_UnequalLengthsFail ==
    (GifRan /\ PreBound /\ Len(last.efit.rows) # Len(last.prediction.rows))
    => last.err # NoErr /\ last.frames = << >>

\* C3: a call that yielded N frames writes a file of exactly those N
\* frames in order, each of the declared duration, looping forever.
C3_FileHoldsNFrames ==
    (GifRan /\ last.err = NoErr)
    => /\ last.gif # None
       /\ last.gif[1].loop = Loop
       /\ Len(last.gif[1].frames) = Len(last.frames)
       /\ \A i \in 1..Len(last.gif[1].frames) :
             /\ last.gif[1].frames[i].img = last.frames[i]
             /\ last.gif[1].frames[i].duration = Duration

\* C4: with two empty arrays on a live surface the generator yields no
\* frame and does not fail; the failure is that of the export, on the
\* empty list of images.
C4_EmptyFailsAtExport ==
    (GifRan /\ last.pre.axes
       /\ last.efit.rows = << >> /\ last.prediction.rows = << >>)
    => last.stage = "save" /\ last.err = "IndexError" /\ last.frames = << >>

\* C5: once to_gif has set the levels, they are the linspace over the
\* range of the whole efit array; every contour of every frame was drawn
\* with them, and the levels field held them at every yield and holds
\* them after the call.
C5_LevelsFixed ==
    (GifRan /\ last.stage \in { "init", "sweep", "save" })
    => /\ IsGlobalRange(anim[last.a].levels, last.efit)
       /\ \A i \in 1..Len(last.stored) : last.stored[i] = anim[last.a].levels
       /\ \A i \in 1..Len(last.frames) :
             \A j \in 1..Len(last.frames[i].arts) :
                last.frames[i].arts[j].lv = anim[last.a].levels

\* C5 happens: an animation of two frames whose efit fields differ in
\* their minimum.
C5_Witness ==
    /\ GifRan /\ last.err = NoErr
    /\ Len(last.frames) >= 2
    /\ last.efit.rows[1].lo # last.efit.rows[2].lo

\* C6: on a bound animator an efit array whose minimum is its maximum
\* does not make the call fail, and the levels hold a single value.
C6_DegenerateDraws ==
    (GifRan /\ PreBound /\ Degenerate(last.efit)
       /\ \E n \in 1..MaxLen : PairOfLength(n))
    => /\ last.err = NoErr
       /\ anim[last.a].levels.lo = anim[last.a].levels.hi

\* C7: once a shape is cached, a plot of a DataArray of another shape
\* fails with one of plot's grid errors and returns no contour.
C7_OtherShapeFails ==
    (PlotRan /\ last.data.kind = "DataArray" /\ last.pre.shape # None
       /\ << last.data.grid.nz, last.data.grid.nr >> # last.pre.shape)
    => last.err \in GridErrors /\ last.ret = None

\* C7 happens: the surface carries a contour of an earlier plot, and the
\* plot of a DataArray of the same element count but another shape fails.
C7_Witness ==
    /\ PlotRan /\ last.data.kind = "DataArray"
    /\ last.pre.shape # None /\ last.pre.fig # None
    /\ Len(last.pre.fig[1].arts) >= 1
    /\ << last.data.grid.nz, last.data.grid.nr >> # last.pre.shape
    /\ last.data.size = last.pre.shape[1] * last.pre.shape[2]
    /\ last.err = "TypeError"

\* C8: a plot of a DataArray whose coordinates differ in length from those
\* of the grid the instance is bound to fails with one of plot's grid
\* errors and returns no contour.
C8_OtherGridFails ==
    (PlotRan /\ last.data.kind = "DataArray" /\ last.pre.mf # None
       /\ last.data.grid # last.pre.mf[1])
    => last.err \in GridErrors /\ last.ret = None

\* The element count of the grid established before the call: that of the
\* cached shape, or of the bound grid while no shape is cached.
PreCells ==
    IF last.pre.shape # None THEN last.pre.shape[1] * last.pre.shape[2]
    ELSE Cells(last.pre.mf[1])

\* C9: a plot of a flat array succeeds exactly when the instance is bound
\* to a grid and the array has as many elements as the established grid;
\* with no grid it fails with one of plot's grid errors.
C9_FlatArrayPlot ==
    (PlotRan /\ last.data.kind = "ndarray")
    => /\ last.err = NoErr
            <=> (last.pre.mf # None /\ last.data.size = PreCells)
       /\ last.pre.mf = None => last.err \in GridErrors

\* C10: on an instance bound to a grid, with or without a surface, the
\* reset at the start of the generator does not fail.
C10_ResetNeverFails ==
    (GifRan /\ last.pre.mf # None) => last.stage # "reset"

\* The steps of one to_gif call over arrays of ne and np rows, in the
\* order of lines 426-436 and 441: reset, levels, the draw of the last
\* pair, the legend, then remove, draw, yield for each index, then save.
CanonLog(ne, np) ==
    << Ev("reset", 0), Ev("levels", 0), Ev("draw", ne), Ev("legend", 0) >>
    \o [j \in 1..(3 * Min2(ne, np)) |->
          CASE j % 3 = 1 -> Ev("remove", (j + 2) \div 3)
            [] j % 3 = 2 -> Ev("draw", (j + 2) \div 3)
            [] OTHER     -> Ev("yield", (j + 2) \div 3)]
    \o << Ev("save", 0) >>

LegendCount(log) == Cardinality({ k \in 1..Len(log) : log[k].ev = "legend" })
YieldCount(log) == Cardinality({ k \in 1..Len(log) : log[k].ev = "yield" })

\* C11: the steps a to_gif call completed are an initial part of: reset,
\* levels, draw of the last pair, legend, then the sweep from the first
\* index on; a call that yielded a frame built the legend exactly once,
\* and before that frame.
C11_StepOrder ==
    GifRan =>
      /\ Len(last.log) <= Len(CanonLog(Len(last.efit.rows), Len(last.prediction.rows)))
      /\ last.log = SubSeq(CanonLog(Len(last.efit.rows), Len(last.prediction.rows)),
                           1, Len(last.log))
      /\ LegendCount(last.log) <= 1
      /\ last.frames # << >> =>
            /\ LegendCount(last.log) = 1
            /\ \A j, k \in 1..Len(last.log) :
                  (last.log[j].ev = "legend" /\ last.log[k].ev = "yield") => j < k

\* C11 happens: a call over two or more pairs ran to its end.
C11_Witness ==
    /\ GifRan /\ last.err = NoErr
    /\ Len(last.efit.rows) >= 2 /\ Len(last.prediction.rows) >= 2
    /\ last.log[3] = Ev("draw", Len(last.efit.rows))
    /\ last.log[Len(last.log)] = Ev("save", 0)

\* C12: every frame a to_gif call yielded shows exactly two contours, the
\* efit and the prediction field of the frame's own index.
C12_TwoArtistsPerFrame ==
    GifRan =>
      \A i \in 1..Len(last.frames) :
         Shows(last.frames[i], last.efit.rows[i], last.prediction.rows[i])

\* C12 happens: a second frame was yielded after the first one's contours
\* and those of the initial draw had been on the surface.
C12_Witness ==
    /\ GifRan
    /\ Len(last.frames) >= 2
    /\ last.frames[1] # last.frames[2]
    /\ Len(last.frames[2].arts) = 2

\* C13: a to_gif call that raised wrote no file; a call that wrote the
\* file did so as its last step, after every frame had been yielded, and
\* the file ends with the last frame.
C13_WriteAfterLastFrame ==
    GifRan =>
      /\ last.err # NoErr =>
            /\ last.gif = None
            /\ \A k \in 1..Len(last.log) : last.log[k].ev # "save"
      /\ last.gif # None =>
            /\ last.log[Len(last.log)] = Ev("save", 0)
            /\ \A k \in 1..(Len(last.log) - 1) : last.log[k].ev # "save"
            /\ YieldCount(last.log) = Len(last.frames)
            /\ Len(last.frames) =
                  Min2(Len(last.efit.rows), Len(last.prediction.rows))
            /\ last.gif[1].frames[Len(last.gif[1].frames)].img
                  = last.frames[Len(last.frames)]

\* C13 happens: the file of an animation of two or more frames was written.
C13_Witness ==
    /\ GifRan /\ last.gif # None
    /\ Len(last.frames) >= 2
    /\ YieldCount(last.log) >= 2

CompareRan == last.op = "compare"

\* The contours of instance a's figure that have the given id.
ArtistsOf(a, id) ==
    { anim[a].fig[1].arts[k] : k \in { j \in 1..Len(anim[a].fig[1].arts) :
                                         anim[a].fig[1].arts[j].id = id } }

\* C14: a comparison that returns gives two distinct contours, the first
\* the efit field in gray, the second the prediction in C0, both on the
\* instance's figure, and appends one 'EFIT++' and one 'Prediction' handle,
\* in that order, to the pending handles.
C14_CompareReturnsPair ==
    (CompareRan /\ last.err = NoErr) =>
      /\ Len(last.ret) = 2
      /\ last.ret[1] # last.ret[2]
      /\ \E x \in ArtistsOf(last.a, last.ret[1]) :
            x.f = last.data.f /\ x.colors = "gray"
      /\ \E y \in ArtistsOf(last.a, last.ret[2]) :
            y.f = last.data2.f /\ y.colors = "C0"
      /\ anim[last.a].handles =
            last.pre.handles \o << [label |-> "EFIT++", color |-> "gray"],
                                   [label |-> "Prediction", color |-> "C0"] >>

\* C14 happens: a comparison of two different fields returned.
C14_Witness ==
    /\ CompareRan /\ last.err = NoErr
    /\ last.data.f # last.data2.f
    /\ Len(anim[last.a].handles) >= 2

\* The levels field after a call that drew field f with the levels field
\* holding lv before: the locator's choice for f while lv is still a
\* count, lv itself afterwards.
LevelsAfter(lv, f) == IF lv.kind = "int" THEN AutoLevels(lv.n, f) ELSE lv

\* C18, as the code has it: a plot or comparison that passes no levels and
\* returns draws each of its contours with the levels field as the call
\* leaves it; that value is the one the field held before the call, or,
\* while the field still held the default count, the levels chosen for
\* the (first) field drawn.  The prediction of a comparison is drawn with
\* the levels of its efit field.
C18_StoredLevelsReused ==
    /\ (PlotRan /\ last.err = NoErr /\ last.kw.levels = None) =>
          /\ anim[last.a].levels = LevelsAfter(last.pre.levels, last.data.f)
          /\ \A x \in ArtistsOf(last.a, last.ret[1]) : x.lv = anim[last.a].levels
    /\ (CompareRan /\ last.err = NoErr) =>
          /\ anim[last.a].levels = LevelsAfter(last.pre.levels, last.data.f)
          /\ \A k \in 1..2 :
                \A x \in ArtistsOf(last.a, last.ret[k]) : x.lv = anim[last.a].levels

\* C18 happens: a second plot on a surface that carries the contour of the
\* plot that established the levels.
C18_Witness ==
    /\ PlotRan /\ last.err = NoErr
    /\ last.pre.axes /\ last.pre.fig # None
    /\ Len(last.pre.fig[1].arts) >= 1
    /\ last.pre.levels.kind = "auto"
    /\ anim[last.a].levels = last.pre.levels

\* C18, as the claim has it: every plot or comparison that passes no
\* levels and returns draws with the levels the first field of a single
\* plot established, whatever ran in between.
C18_FirstLevelsForever ==
    ((PlotRan \/ CompareRan) /\ last.err = NoErr /\ last.kw.levels = None) =>
       \E f \in PlotFields : anim[last.a].levels = AutoLevels(DefaultLevels, f)

\* C19: an instance is idle (no grid, no surface) or bound (grid and
\* surface); in particular it has a drawing surface only when it is bound
\* to a grid.
C19_SurfaceOnlyWithGrid ==
    \A a \in live : anim[a].axes => anim[a].mf # None

\* C20: a plot call that raises leaves magnetic_flux, the cached shape,
\* the levels field, the pending handles and the existence of the surface
\* as they were before the call.
C20_FailedPlotChangesNothing ==
    (PlotRan /\ last.err # NoErr) =>
      /\ anim[last.a].mf = last.pre.mf
      /\ anim[last.a].shape = last.pre.shape
      /\ anim[last.a].levels = last.pre.levels
      /\ anim[last.a].handles = last.pre.handles
      /\ anim[last.a].axes = last.pre.axes

PullRan == last.op = "next"

\* The steps a pull from the yield of frame i runs when a further pair
\* exists: remove the contours of frame i, draw the pair i + 1, yield.
TurnLog(i) == << Ev("remove", i + 1), Ev("draw", i + 1), Ev("yield", i + 1) >>

\* C16: the frame sequence is lazy and cannot be restarted. Creating the
\* sequence runs no step and changes nothing; the reset and the levels run
\* only in the first pull; a pull from the yield of frame i runs exactly
\* the turn of index i + 1 and yields that one frame; a pull that finds no
\* further pair, and every pull after it, yields nothing and leaves the
\* animator and the current figure as they were.
C16_LazyNonRestartable ==
    /\ last.op = "animate" =>
          /\ anim[last.a] = last.pre /\ cur = last.precur
          /\ last.log = << >>
          /\ gens[last.g].st = "created" /\ gens[last.g].i = 0
    /\ PullRan =>
          /\ (\E k \in 1..Len(last.log) : last.log[k].ev \in { "reset", "levels" })
                => last.pregen.st = "created"
          /\ (last.pregen.st = "suspended" /\ last.err = NoErr) =>
                /\ last.log = TurnLog(last.pregen.i)
                /\ Len(last.frames) = 1
                /\ gens[last.g].i = last.pregen.i + 1
                /\ gens[last.g].st = "suspended"
          /\ (last.pregen.st = "created" /\ last.err = NoErr) =>
                /\ Len(last.frames) = 1
                /\ gens[last.g].i = 1
                /\ YieldCount(last.log) = 1
          /\ last.err = "StopIteration" =>
                /\ last.frames = << >> /\ last.log = << >>
                /\ anim[last.a] = last.pre /\ cur = last.precur
                /\ gens[last.g].st = "done"
                /\ gens[last.g].i = last.pregen.i
          /\ last.pregen.st = "done" => last.err = "StopIteration"

\* C16 happens: both frames of a sequence were pulled, a third pull
\* exhausted it, and it is pulled once more.
C16_Witness ==
    /\ PullRan
    /\ last.pregen.st = "done"
    /\ last.pregen.i >= 2
    /\ anim[last.a].axes

\* The generators dropped by their consumer after at least one frame and
\* before their last.
Dropped ==
    { g \in GenIds :
        /\ gens[g].st = "abandoned"
        /\ gens[g].i >= 1
        /\ gens[g].i < Min2(Len(gens[g].efit.rows), Len(gens[g].prediction.rows)) }

\* to_gif(efit, prediction) with the arguments of the call that is being
\* made, on the session that never ran generator g.
Untouched(g) == ToGifResult(gens[g].w0[1], last'.a, last'.efit, last'.prediction)

\* A to_gif call on the instance of the dropped generator g.
GifAfterDrop(g) ==
    /\ g \in Dropped
    /\ last.op = "idle" /\ last'.op = "to_gif"
    /\ gens[g].a = last'.a

\* The call left what to_gif leaves on the session that never ran g.
SameAsUntouched(g) ==
    \E u \in { Untouched(g) } :
        /\ last'.err = u.err
        /\ last'.frames = u.g.frames
        /\ last'.gif = u.gif
        /\ last'.log = u.g.log
        /\ last'.stored = u.g.stored
        /\ anim'[last'.a].handles = u.g.w.anim[last'.a].handles
        /\ anim'[last'.a].axes = u.g.w.anim[last'.a].axes
        /\ anim'[last'.a].axes =>
              Picture(anim'[last'.a].fig[1]) = Picture(u.g.w.anim[last'.a].fig[1])
        /\ (\E k \in 1..Len(u.g.log) : u.g.log[k].ev = "levels")
              => anim'[last'.a].levels = u.g.w.anim[last'.a].levels

\* C17: an animation dropped after k < N of its frames leaves nothing a
\* later animation of the same instance can see.  Whatever calls are made
\* beside it, each to_gif call after the drop raises the same, runs the
\* same steps, yields the same frames drawn at the same levels, writes the
\* same file and leaves the same legend handles and picture as it does in
\* the session that made the same calls and never ran the dropped
\* animation; once it has fixed its levels (line 428) it leaves the same
\* levels too.
C17_DroppedLeavesNoTrace ==
    [][\A g \in GenIds : GifAfterDrop(g) => SameAsUntouched(g)]_vars

LegendRan == last.op = "legend"

\* The contours the last plot or compare call returned.
Returned == { last.ret[k] : k \in 1..Len(last.ret) }

\* C15: whatever the interleaving of the calls of two instances, what an
\* instance draws lands on its own figure: the contours a plot or compare
\* call returns are on the figure of the instance called and on no other,
\* and a legend() call does not draw on the figure of another instance.
C15_OwnSurfaceOnly ==
    /\ ((PlotRan \/ CompareRan) /\ last.err = NoErr) =>
          \A id \in Returned :
             /\ ArtistsOf(last.a, id) # {}
             /\ \A b \in live \ { last.a } :
                   anim[b].fig # None => ArtistsOf(b, id) = {}
    /\ LegendRan => ~(cur.kind = "inst" /\ cur.a # last.a)

\* The number of pending legend handles of the instance called, after the
\* call and before it.
Pending == Len(anim[last.a].handles)
PendingBefore == Len(last.pre.handles)

\* The call raised nothing.
Fine == last.err = NoErr

\* Every legend step of the log precedes every step of the frame sweep.
LegendBeforeSweep(log) ==
    \A k \in 1..Len(log) :
       log[k].ev = "legend" =>
          \A j \in 1..(k - 1) : log[j].ev \notin { "remove", "yield" }

\* C21: the pending legend handles.  legend() leaves none.  A plot that
\* succeeds adds one if it has a label and none otherwise, so a comparison
\* adds two; a plot that raises adds none.  An animation starts by
\* emptying the list (when its reset raises the list is empty already),
\* its one legend is drawn before the sweep and shows the two handles of
\* the first drawing, and every frame of the sweep adds two handles that
\* stay pending: two after the first frame, two more with every further
\* frame, 2N after a to_gif call of N frames.
C21_PendingHandles ==
    /\ LegendRan => Pending = 0
    /\ PlotRan =>
          Pending = PendingBefore + (IF Fine /\ last.label # "" THEN 1 ELSE 0)
    /\ (CompareRan /\ Fine) => Pending = PendingBefore + 2
    /\ GifRan =>
          /\ Fine =>
                /\ Pending = 2 * Len(last.frames)
                /\ LegendCount(last.log) = 1
                /\ anim[last.a].fig[1].legend # None
                /\ Len(anim[last.a].fig[1].legend[1]) = 2
          /\ last.stage = "reset" => (PendingBefore = 0 /\ Pending = 0)
          /\ last.stage = "levels" => Pending = 0
          /\ LegendBeforeSweep(last.log)
    /\ PullRan =>
          /\ (last.pregen.st = "created" /\ Fine) =>
                /\ Pending = 2
                /\ LegendCount(last.log) = 1
                /\ Len(anim[last.a].fig[1].legend[1]) = 2
          /\ (last.pregen.st = "created" /\ last.stage = "reset") =>
                (PendingBefore = 0 /\ Pending = 0)
          /\ (last.pregen.st = "suspended" /\ Fine) =>
                /\ Pending = PendingBefore + 2
                /\ LegendCount(last.log) = 0
          /\ last.err = "StopIteration" => Pending = PendingBefore
          /\ LegendBeforeSweep(last.log)

\* C21 happens: the third frame of a sequence was pulled and six handles
\* are pending, while the legend on the figure shows two.
C21_Witness ==
    /\ PullRan /\ Fine
    /\ gens[last.g].i = 3
    /\ Pending = 6
    /\ anim[last.a].fig[1].legend # None
    /\ Len(anim[last.a].fig[1].legend[1]) = 2

\* The ids of the contours on a figure (none when there is no figure).
IdsOn(fig) == IF fig = None THEN {}
              ELSE { fig[1].arts[k].id : k \in 1..Len(fig[1].arts) }

\* The contours the pulled generator held when it was resumed.
HeldBefore == { last.pregen.contours[k] : k \in 1..Len(last.pregen.contours) }

\* C22: two sequences of one instance pulled in any order.  Every frame a
\* pull yields shows exactly two contours, and a pull that keeps the
\* surface takes from it only contours its own sequence drew.
C22_TwoContoursEachFrame ==
    PullRan =>
      /\ \A k \in 1..Len(last.frames) : Len(last.frames[k].arts) = 2
      /\ (last.pregen.st = "suspended" /\ last.pre.axes) =>
            (IdsOn(last.pre.fig) \ IdsOn(anim[last.a].fig)) \subseteq HeldBefore

SplitRan == prep.stage = "split"

\* The samples the split is made of, by position, and those of shot 3.
Kept == 1..Len(prep.train)
OfTestShot == { i \in Kept : prep.train[i].shot = TestShot }

\* The place of sample i within its side of the split.
PlaceOf(i) ==
    Cardinality({ j \in 1..i : (j \in OfTestShot) <=> (i \in OfTestShot) })

\* The rows sample i has in X and in y.
XRowOf(i) ==
    [t |-> prep.train[i].t,
     row |-> [k \in 1..Cardinality(prep.chans) |->
                 prep.train[i].flux[Sorted(prep.chans)[k]]]]
YRowOf(i) == Flatten(prep.train[i].psi)

\* C23: the split by shot_index is a partition that keeps X and y
\* aligned.  Every sample left after the NaN drops has its X row and its
\* y row at the same place of the same side, the test side for the
\* samples of shot 3 and the train side for all others, in their original
\* order; no sample is on both sides and the sides hold nothing else.
C23_SplitIsAlignedPartition ==
    SplitRan =>
      /\ Len(prep.X_test) = Cardinality(OfTestShot)
      /\ Len(prep.y_test) = Cardinality(OfTestShot)
      /\ Len(prep.X_train) = Len(prep.train) - Cardinality(OfTestShot)
      /\ Len(prep.y_train) = Len(prep.train) - Cardinality(OfTestShot)
      /\ \A i \in OfTestShot :
            /\ prep.X_test[PlaceOf(i)] = XRowOf(i)
            /\ prep.y_test[PlaceOf(i)] = YRowOf(i)
            /\ \A p \in 1..Len(prep.y_train) : prep.y_train[p] # YRowOf(i)
      /\ \A i \in Kept \ OfTestShot :
            /\ prep.X_train[PlaceOf(i)] = XRowOf(i)
            /\ prep.y_train[PlaceOf(i)] = YRowOf(i)
            /\ \A p \in 1..Len(prep.y_test) : prep.y_test[p] # YRowOf(i)

\* C23 happens: three samples were split, those of shot 3 around one of
\* another shot, two of them with the same time label.
C23_Witness ==
    /\ SplitRan
    /\ Len(prep.train) = 3
    /\ OfTestShot = {1, 3}
    /\ prep.train[1].t = prep.train[2].t
    /\ Len(prep.y_test) = 2 /\ Len(prep.y_train) = 1

====
